---- MODULE Spec2Model ----
(***************************************************************************)
(* A model of FlashCommand.flashDfu (the USB flow of particle-cli's flash  *)
(* command): one invocation, from the toolchain check to the device write. *)
(* Every .then() callback of the promise chain is one action; the values   *)
(* the collaborators return (dfu-util present, device found, fs.statSync,  *)
(* the binary parser's descriptor, the write's result) are chosen by the   *)
(* environment in the action that consumes them.                           *)
(*                                                                         *)
(* JavaScript values: a string that is concatenated or tested for          *)
(* truthiness (an address) is a sequence of one-character strings, so      *)
(* that '0x0' + x is computed and not assumed; undefined and '' are both   *)
(* the empty sequence where only truthiness is read.                       *)
(***************************************************************************)
EXTENDS Integers, Sequences, FiniteSets, TLC

\* ------------------------------------------------------------------ bounds

\* info.prefixInfo.moduleIndex ranges over 0..MaxModuleIndex
MaxModuleIndex == 3

\* ------------------------------------------------------- program constants

\* the suffixSize that means "no suffix information"
UnknownSuffixSize == 65535

\* a suffixSize of a binary that has a suffix
SuffixSizes == {36, UnknownSuffixSize}

Undefined == "undefined"

\* String(undefined), as '0x0' + undefined spells it
UndefinedChars == <<"u", "n", "d", "e", "f", "i", "n", "e", "d">>

\* an absent info.prefixInfo.moduleStartAddy
NoStartAddy == <<>>

\* a falsy destAddress (undefined, or an empty string)
NoAddress == <<>>

systemModuleIndexToString(i) ==
    CASE i = 1 -> "systemFirmwareOne"
      [] i = 2 -> "systemFirmwareTwo"
      [] i = 3 -> "systemFirmwareThree"
      [] OTHER -> Undefined

\* ModuleInfo.FunctionType, by name; OTHER stands for every value the switch
\* has no case for (NONE, RESOURCE, BOOTLOADER, SETTINGS, ...)
FunctionTypes == {"MONO_FIRMWARE", "SYSTEM_PART", "USER_PART", "RADIO_STACK", "OTHER"}

\* info.prefixInfo.moduleFlags, a bit mask, as the set of the bits set
ModuleFlagSets == {{}, {"DROP_MODULE_INFO"}}

\* ------------------------------------------------------------ environment

\* the per-platform segment tables (lib/deviceSpecs), keyed by dfu.dfuId
NoEntry == [present |-> FALSE, address |-> NoAddress]

Entry(a) == [present |-> TRUE, address |-> a]

DfuIds == {"1d50:607f", "2b04:d006", "2b04:d00c"}

deviceSpecs(id) ==
    CASE id = "1d50:607f" ->
           [productId |-> 0,
            userFirmware |-> Entry(<<"0", "x", "0", "8", "0", "0", "5", "0", "0", "0">>),
            factoryReset |-> Entry(<<"0", "x", "0", "0", "0", "2", "0", "0", "0", "0">>),
            systemFirmwareOne |-> NoEntry,
            systemFirmwareTwo |-> NoEntry,
            systemFirmwareThree |-> NoEntry,
            radioStack |-> NoEntry]
      [] id = "2b04:d006" ->
           [productId |-> 6,
            userFirmware |-> Entry(<<"0", "x", "0", "8", "0", "A", "0", "0", "0", "0">>),
            factoryReset |-> Entry(<<"0", "x", "0", "8", "0", "E", "0", "0", "0", "0">>),
            systemFirmwareOne |-> Entry(<<"0", "x", "0", "8", "0", "2", "0", "0", "0", "0">>),
            systemFirmwareTwo |-> Entry(<<"0", "x", "0", "8", "0", "6", "0", "0", "0", "0">>),
            systemFirmwareThree |-> NoEntry,
            radioStack |-> NoEntry]
      [] OTHER ->
           [productId |-> 12,
            userFirmware |-> Entry(<<"0", "x", "0", "0", "0", "D", "4", "0", "0", "0">>),
            factoryReset |-> NoEntry,
            systemFirmwareOne |-> Entry(NoAddress),
            systemFirmwareTwo |-> NoEntry,
            systemFirmwareThree |-> NoEntry,
            radioStack |-> Entry(<<"0", "x", "0", "0", "0", "0", "1", "0", "0", "0">>)]

SegmentNames ==
    {"userFirmware", "factoryReset", "systemFirmwareOne", "systemFirmwareTwo",
     "systemFirmwareThree", "radioStack"}

\* specs[segmentName], undefined for a name the table does not hold
SegmentEntry(sp, segmentName) ==
    IF segmentName \in SegmentNames THEN sp[segmentName] ELSE NoEntry

\* dfu._validateSegmentSpecs(segmentName): {error, specs}
validateSegmentSpecs(id, segmentName) ==
    LET params == SegmentEntry(deviceSpecs(id), segmentName)
    IN  IF params.present
        THEN [error |-> FALSE, specs |-> params]
        ELSE [error |-> TRUE, specs |-> NoEntry]

\* dfu.checkKnownApp(name): the path of a bundled application, or undefined
KnownApps == {"tinker"}

checkKnownApp(name) ==
    IF name \in KnownApps THEN "binaries/" \o name ELSE Undefined

\* the `binary` arguments tried
BinaryArgs == {"firmware.bin", "tinker"}

\* the path temp.createWriteStream({ suffix: '.bin' }) opens
TempPath == "tmp.bin"

PlatformIDs == {0, 6, 12}

\* info.prefixInfo.moduleStartAddy as the parser gives it: hexadecimal digits
StartAddys == {<<"0">>, <<"8", "0", "2", "0", "0", "0", "0">>}

Infos ==
    [suffixSize : SuffixSizes,
     crcOk : BOOLEAN,
     platformID : PlatformIDs,
     moduleFunction : FunctionTypes,
     moduleIndex : 0..MaxModuleIndex,
     moduleStartAddy : StartAddys \cup {NoStartAddy},
     moduleFlags : ModuleFlagSets]

\* requestLeave: <<>> when the caller gives none, <<b>> when it gives b
RequestLeaves == {<<>>, <<TRUE>>, <<FALSE>>}

\* ------------------------------------------------------------------ state

VARIABLES
    pc,               \* the callback of the chain that runs next
    binaryArg,        \* the `binary` argument as the caller gave it
    binary,           \* `binary`, reassigned by the known-app lookup
    factory, force, requestLeave,
    dfuUtil,          \* what dfu.isDfuUtilInstalled() found
    targetDevice,     \* the handle dfu.findCompatibleDFU returned
    dfuId,            \* dfu.dfuId, set by dfu.findCompatibleDFU
    stats,            \* what fs.statSync(binary) found
    flashingKnownApp,
    info,             \* <<>> before the parser answered, <<descriptor>> after
    specs,            \* the local `specs`: Undefined, or the dfuId of the table
    destSegment, destAddress,
    finalBinary,      \* the value the last .then() receives
    tempFiles,        \* the files temp has created and not removed
    writes,           \* the calls of dfu.writeDfu, in order
    err,              \* the message of the error thrown
    outcome           \* what the returned promise settled to

vars ==
    <<pc, binaryArg, binary, factory, force, requestLeave, dfuUtil, targetDevice,
      dfuId, stats, flashingKnownApp, info, specs, destSegment, destAddress,
      finalBinary, tempFiles, writes, err, outcome>>

Init ==
    /\ pc = "isDfuUtilInstalled"
    /\ binaryArg \in BinaryArgs
    /\ binary = binaryArg
    /\ factory \in BOOLEAN
    /\ force \in BOOLEAN
    /\ requestLeave \in RequestLeaves
    /\ dfuUtil = "unchecked"
    /\ targetDevice = "none"
    /\ dfuId = "none"
    /\ stats = "none"
    /\ flashingKnownApp = FALSE
    /\ info = <<>>
    /\ specs = Undefined
    /\ destSegment = Undefined
    /\ destAddress = NoAddress
    /\ finalBinary = Undefined
    /\ tempFiles = {}
    /\ writes = <<>>
    /\ err = ""
    /\ outcome = "pending"

\* the messages of the errors thrown
ErrNoDfuUtil == "dfu-util is not installed"

ErrNoDevice == "no compatible DFU device found"

ErrNoFile == "file does not exist and no known app found."

ErrDirectory == "You cannot flash a directory over USB"

ErrParse == "Could not parse"

ErrCrc == "CRC is invalid, use --force to override"

ErrPlatform == "Incorrect platform id, use --force to override"

ErrModuleFunction == "unknown module function, use --force to override"

ErrTempStream == "write stream error"

ErrSegment == "dfu.write: segment has no specs"

ErrUnknownDestination == "Unknown destination"

ErrWrite == "dfu write failed"

WrappedError == "VError: Error writing firmware"

\* a callback throws: the chain skips to its .catch()
Throw(msg) ==
    /\ pc' = "catch"
    /\ err' = msg

\* dfu.isDfuUtilInstalled(): a promise that rejects when dfu-util is absent
isDfuUtilInstalled(installed) == IF installed THEN "resolved" ELSE "rejected"

\* the promise dropped (a callback that does not return it): the chain goes on
ChainRejects_PromiseDropped(settled) == FALSE

\* the callback returns the promise, so the chain rejects when it does
ChainRejects(settled) == settled = "rejected"

\* .then(() => dfu.isDfuUtilInstalled())
IsDfuUtilInstalled ==
    /\ pc = "isDfuUtilInstalled"
    /\ \E installed \in BOOLEAN :
         /\ dfuUtil' = IF installed THEN "installed" ELSE "missing"
         /\ IF ChainRejects(isDfuUtilInstalled(installed))
            THEN Throw(ErrNoDfuUtil)
            ELSE pc' = "findCompatibleDFU" /\ err' = err
    /\ UNCHANGED <<binaryArg, binary, factory, force, requestLeave, targetDevice,
                   dfuId, stats, flashingKnownApp, info, specs, destSegment,
                   destAddress, finalBinary, tempFiles, writes, outcome>>

\* .then(async () => { targetDevice = await dfu.findCompatibleDFU(...) })
FindCompatibleDFU ==
    /\ pc = "findCompatibleDFU"
    /\ \E found \in DfuIds \cup {"none"} :
         IF found = "none"
         THEN /\ Throw(ErrNoDevice)
              /\ UNCHANGED <<targetDevice, dfuId>>
         ELSE /\ targetDevice' = found
              /\ dfuId' = found
              /\ pc' = "statBinary"
              /\ err' = err
    /\ UNCHANGED <<binaryArg, binary, factory, force, requestLeave, dfuUtil, stats,
                   flashingKnownApp, info, specs, destSegment, destAddress,
                   finalBinary, tempFiles, writes, outcome>>

\* every stat that is not a file taken for a missing file
StatThrows_AnyNonFile(st) == st # "file"

\* whether fs.statSync(binary) throws, which the try/catch takes for a missing file
StatThrows(st) == st = "ENOENT"

\* the callback that looks at the file: a known app is matched only when
\* fs.statSync throws
StatBinary ==
    /\ pc = "statBinary"
    /\ \E st \in {"file", "directory", "ENOENT"} :
         /\ stats' = st
         /\ CASE StatThrows(st) ->
                   /\ binary' = checkKnownApp(binary)
                   /\ IF binary' = Undefined
                      THEN /\ Throw(ErrNoFile)
                           /\ UNCHANGED flashingKnownApp
                      ELSE /\ flashingKnownApp' = TRUE
                           /\ pc' = "parseFile"
                           /\ err' = err
              [] ~StatThrows(st) /\ st # "file" ->
                   /\ Throw(ErrDirectory)
                   /\ UNCHANGED <<binary, flashingKnownApp>>
              [] OTHER ->
                   /\ pc' = "parseFile"
                   /\ UNCHANGED <<binary, flashingKnownApp, err>>
    /\ UNCHANGED <<binaryArg, factory, force, requestLeave, dfuUtil, targetDevice,
                   dfuId, info, specs, destSegment, destAddress, finalBinary,
                   tempFiles, writes, outcome>>

DefaultSegment(fact) == IF fact THEN "factoryReset" ELSE "userFirmware"

\* the callback that starts the parser, or passes a known app through
ParseFile ==
    /\ pc = "parseFile"
    /\ destSegment' = DefaultSegment(factory)
    /\ IF flashingKnownApp
       THEN /\ finalBinary' = binary
            /\ pc' = "resolve"
       ELSE /\ pc' = "parsing"
            /\ UNCHANGED finalBinary
    /\ UNCHANGED <<binaryArg, binary, factory, force, requestLeave, dfuUtil,
                   targetDevice, dfuId, stats, flashingKnownApp, info, specs,
                   destAddress, tempFiles, writes, err, outcome>>

\* parser.parseFile(binary) rejects
ParseFailed ==
    /\ pc = "parsing"
    /\ Throw(ErrParse)
    /\ UNCHANGED <<binaryArg, binary, factory, force, requestLeave, dfuUtil,
                   targetDevice, dfuId, stats, flashingKnownApp, info, specs,
                   destSegment, destAddress, finalBinary, tempFiles, writes, outcome>>

CrcCheckFails(i, frc) == ~i.crcOk /\ ~frc

\* the platform check with the test of force inverted
PlatformCheckFails_ForceInverted(i, sp, frc) == i.platformID # sp.productId /\ frc

PlatformCheckFails(i, sp, frc) == i.platformID # sp.productId /\ ~frc

\* the default case of the switch without its test of force
UnknownFunctionFails_IgnoresForce(i, frc) ==
    i.moduleFunction \notin {"MONO_FIRMWARE", "SYSTEM_PART", "USER_PART", "RADIO_STACK"}

UnknownFunctionFails(i, frc) ==
    /\ i.moduleFunction \notin {"MONO_FIRMWARE", "SYSTEM_PART", "USER_PART", "RADIO_STACK"}
    /\ ~frc

\* '0x0' + info.prefixInfo.moduleStartAddy
StartAddress(i) ==
    <<"0", "x", "0">> \o
        (IF i.moduleStartAddy = NoStartAddy THEN UndefinedChars ELSE i.moduleStartAddy)

\* destSegment after the switch on info.prefixInfo.moduleFunction
ModuleSegment(i, sp, seg) ==
    CASE i.moduleFunction = "MONO_FIRMWARE" ->
           IF sp.systemFirmwareOne.present THEN "systemFirmwareOne" ELSE seg
      [] i.moduleFunction = "SYSTEM_PART" -> systemModuleIndexToString(i.moduleIndex)
      [] i.moduleFunction = "RADIO_STACK" -> "radioStack"
      [] OTHER -> seg

\* destAddress after the switch
ModuleAddress(i, addr) ==
    IF i.moduleFunction \in {"SYSTEM_PART", "RADIO_STACK"} THEN StartAddress(i) ELSE addr

DropsModuleInfo(i) == "DROP_MODULE_INFO" \in i.moduleFlags

\* .then(info => { ... }): the checks, the switch, the start of the stripping
OnInfo ==
    /\ pc = "parsing"
    /\ \E i \in Infos :
         /\ info' = <<i>>
         /\ CASE i.suffixSize = UnknownSuffixSize ->
                   /\ finalBinary' = Undefined
                   /\ pc' = "resolve"
                   /\ UNCHANGED <<specs, destSegment, destAddress, err>>
              [] i.suffixSize # UnknownSuffixSize /\ CrcCheckFails(i, force) ->
                   /\ Throw(ErrCrc)
                   /\ UNCHANGED <<specs, destSegment, destAddress, finalBinary>>
              [] OTHER ->
                   /\ specs' = dfuId
                   /\ IF PlatformCheckFails(i, deviceSpecs(dfuId), force)
                      THEN /\ Throw(ErrPlatform)
                           /\ UNCHANGED <<destSegment, destAddress, finalBinary>>
                      ELSE IF UnknownFunctionFails(i, force)
                      THEN /\ Throw(ErrModuleFunction)
                           /\ UNCHANGED <<destSegment, destAddress, finalBinary>>
                      ELSE /\ destSegment' = ModuleSegment(i, deviceSpecs(dfuId), destSegment)
                           /\ destAddress' = ModuleAddress(i, destAddress)
                           /\ err' = err
                           /\ IF DropsModuleInfo(i)
                              THEN pc' = "dropModuleInfo" /\ UNCHANGED finalBinary
                              ELSE pc' = "resolve" /\ finalBinary' = binary
    /\ UNCHANGED <<binaryArg, binary, factory, force, requestLeave, dfuUtil,
                   targetDevice, dfuId, stats, flashingKnownApp, tempFiles, writes,
                   outcome>>

\* _dropModuleInfo(binary): the temporary file is created, then the copy ends
\* with the write stream's 'finish' or 'error', the two events that settle the
\* promise; nothing here or later removes the file
DropModuleInfo ==
    /\ pc = "dropModuleInfo"
    /\ tempFiles' = tempFiles \cup {TempPath}
    /\ \E finished \in BOOLEAN :
         IF finished
         THEN /\ finalBinary' = TempPath
              /\ pc' = "resolve"
              /\ err' = err
         ELSE /\ Throw(ErrTempStream)
              /\ UNCHANGED finalBinary
    /\ UNCHANGED <<binaryArg, binary, factory, force, requestLeave, dfuUtil,
                   targetDevice, dfuId, stats, flashingKnownApp, info, specs,
                   destSegment, destAddress, writes, outcome>>

\* the leave flag computed from the segment alone
ShouldLeave_IgnoresRequest(rl, seg) == seg = "userFirmware"

\* requestLeave !== undefined ? requestLeave : (destSegment === 'userFirmware')
ShouldLeave(rl, seg) == IF rl # <<>> THEN rl[1] ELSE seg = "userFirmware"

\* whether the last callback looks the address up in the segment table
NeedsLookup(addr, seg) == addr = NoAddress /\ seg # Undefined

\* destAddress after the lookup
ResolvedAddress(id, addr, seg) ==
    IF NeedsLookup(addr, seg) THEN validateSegmentSpecs(id, seg).specs.address ELSE addr

\* .then((finalBinary) => { ... }): the address, then the call of dfu.writeDfu
Resolve ==
    /\ pc = "resolve"
    /\ IF NeedsLookup(destAddress, destSegment) /\ validateSegmentSpecs(dfuId, destSegment).error
       THEN /\ Throw(ErrSegment)
            /\ UNCHANGED <<destAddress, writes>>
       ELSE /\ destAddress' = ResolvedAddress(dfuId, destAddress, destSegment)
            /\ IF destAddress' = NoAddress
               THEN /\ Throw(ErrUnknownDestination)
                    /\ UNCHANGED writes
               ELSE /\ writes' = Append(writes,
                                        [alt |-> 0,
                                         image |-> finalBinary,
                                         address |-> destAddress',
                                         leave |-> ShouldLeave(requestLeave, destSegment),
                                         device |-> targetDevice])
                    /\ pc' = "writeDfu"
                    /\ err' = err
    /\ UNCHANGED <<binaryArg, binary, factory, force, requestLeave, dfuUtil,
                   targetDevice, dfuId, stats, flashingKnownApp, info, specs,
                   destSegment, finalBinary, tempFiles, outcome>>

\* the promise dfu.writeDfu returned settles
WriteDfu ==
    /\ pc = "writeDfu"
    /\ \E written \in BOOLEAN :
         IF written
         THEN /\ pc' = "done"
              /\ outcome' = "resolved"
              /\ err' = err
         ELSE /\ Throw(ErrWrite)
              /\ UNCHANGED outcome
    /\ UNCHANGED <<binaryArg, binary, factory, force, requestLeave, dfuUtil,
                   targetDevice, dfuId, stats, flashingKnownApp, info, specs,
                   destSegment, destAddress, finalBinary, tempFiles, writes>>

\* .catch((err) => { throw new VError(ensureError(err), 'Error writing firmware') })
Catch ==
    /\ pc = "catch"
    /\ pc' = "failed"
    /\ outcome' = WrappedError
    /\ UNCHANGED <<binaryArg, binary, factory, force, requestLeave, dfuUtil,
                   targetDevice, dfuId, stats, flashingKnownApp, info, specs,
                   destSegment, destAddress, finalBinary, tempFiles, writes, err>>

Next ==
    \/ IsDfuUtilInstalled
    \/ FindCompatibleDFU
    \/ StatBinary
    \/ ParseFile
    \/ ParseFailed
    \/ OnInfo
    \/ DropModuleInfo
    \/ Resolve
    \/ WriteDfu
    \/ Catch

Spec == Init /\ [][Next]_vars

\* ------------------------------------------------- vocabulary of the claims

Parsed == info # <<>>

Written == writes # <<>>

Aborted == pc \in {"catch", "failed"}

Ended == pc \in {"done", "failed"}

\* the product ID the connected device expects
ExpectedProductId == deviceSpecs(dfuId).productId

PlatformMatches == info[1].platformID = ExpectedProductId

SuffixKnown == info[1].suffixSize # UnknownSuffixSize

\* the segment table's entry for the resolved segment
TableEntry == SegmentEntry(deviceSpecs(dfuId), destSegment)

LowerHexDigits ==
    <<"0", "1", "2", "3", "4", "5", "6", "7", "8", "9", "a", "b", "c", "d", "e", "f">>

IsHexDigits(s) ==
    /\ s # <<>>
    /\ \A k \in 1..Len(s) : \E d \in 1..16 : LowerHexDigits[d] = s[k]

HexDigitValue(c) == (CHOOSE d \in 1..16 : LowerHexDigits[d] = c) - 1

RECURSIVE HexValue(_)
HexValue(s) ==
    IF s = <<>> THEN 0
    ELSE 16 * HexValue(SubSeq(s, 1, Len(s) - 1)) + HexDigitValue(s[Len(s)])

\* a is "0x" followed by hexadecimal digits
IsHexAddress(a) ==
    /\ Len(a) >= 3
    /\ a[1] = "0"
    /\ a[2] = "x"
    /\ IsHexDigits(SubSeq(a, 3, Len(a)))

\* a is a hexadecimal address of the value the descriptor's start address has
IsStartAddressOf(a, i) ==
    /\ i.moduleStartAddy # NoStartAddy
    /\ IsHexAddress(a)
    /\ HexValue(SubSeq(a, 3, Len(a))) = HexValue(i.moduleStartAddy)

\* ------------------------------------------------------------------ claims

\* C1 (as stated): with force unset, a parsed image whose CRC is invalid or
\* whose platform ID differs from the device's product ID always fails with
\* CRCInvalid or PlatformMismatch and is never written, whatever its
\* suffixSize is.
C1_AsStated ==
    (Parsed /\ ~force /\ (~info[1].crcOk \/ ~PlatformMatches))
        => /\ ~Written
           /\ Aborted
           /\ err = (IF ~info[1].crcOk THEN ErrCrc ELSE ErrPlatform)

\* C1 (amended): with force unset, a parsed image whose suffixSize is not the
\* unknown sentinel and whose CRC is invalid or whose platform ID differs
\* from the device's product ID fails (CRCInvalid when the CRC is invalid,
\* else PlatformMismatch) and dfu.writeDfu is never called, whatever the
\* other descriptor fields and the factory flag are.
C1_NoWriteOfInvalidImage ==
    (Parsed /\ ~force /\ SuffixKnown /\ (~info[1].crcOk \/ ~PlatformMatches))
        => /\ ~Written
           /\ Aborted
           /\ err = (IF ~info[1].crcOk THEN ErrCrc ELSE ErrPlatform)

C1_Witness ==
    /\ Parsed /\ ~force /\ SuffixKnown
    /\ info[1].crcOk /\ ~PlatformMatches
    /\ info[1].moduleFunction = "USER_PART"
    /\ pc = "failed"
    /\ err = ErrPlatform

\* C2: dfu.writeDfu is called only with a non-null address that is the
\* descriptor's module start address or the segment table's address of the
\* resolved segment; when neither gives an address the attempt fails with
\* UnknownDestination and nothing is written.
C2_AddressFromDescriptorOrTable ==
    /\ Written =>
         /\ writes[1].address # NoAddress
         /\ \/ TableEntry.present /\ writes[1].address = TableEntry.address
            \/ Parsed /\ IsStartAddressOf(writes[1].address, info[1])
    /\ (Aborted /\ err \in {ErrSegment, ErrUnknownDestination}) => ~Written

\* C3: a SYSTEM_PART image with moduleIndex 1, 2 or 3 that reaches the write,
\* a suffixSize of the unknown sentinel included, is written to segment
\* systemFirmwareOne, Two or Three at its module start address in hexadecimal
\* form, whatever the segment table and the factory flag say.
C3_SystemPartSegmentAndAddress ==
    (/\ Written /\ Parsed
     /\ info[1].moduleFunction = "SYSTEM_PART"
     /\ info[1].moduleIndex \in 1..3
     /\ info[1].moduleStartAddy # NoStartAddy)
        => /\ destSegment = (CASE info[1].moduleIndex = 1 -> "systemFirmwareOne"
                               [] info[1].moduleIndex = 2 -> "systemFirmwareTwo"
                               [] OTHER -> "systemFirmwareThree")
           /\ IsStartAddressOf(writes[1].address, info[1])

\* C4: an image whose suffixSize is the unknown sentinel does not fail the
\* CRC or the platform check, and the image handed to dfu.writeDfu is the
\* image to flash (the original path when the drop-module-info flag is
\* unset), never undefined.
C4_UnknownSuffixStillWritesTheImage ==
    (Parsed /\ ~SuffixKnown)
        => /\ err \notin {ErrCrc, ErrPlatform}
           /\ Written =>
                /\ writes[1].image # Undefined
                /\ ~DropsModuleInfo(info[1]) => writes[1].image = binary

\* C5: a SYSTEM_PART or RADIO_STACK image whose descriptor has no module
\* start address is written only to the segment table's address of the
\* resolved segment, never to an address built from the missing value.
C5_MissingStartAddressUsesTable ==
    (/\ Written /\ Parsed
     /\ info[1].moduleFunction \in {"SYSTEM_PART", "RADIO_STACK"}
     /\ info[1].moduleStartAddy = NoStartAddy)
        => /\ TableEntry.present
           /\ writes[1].address = TableEntry.address

\* the segment section 4.3 gives a verified descriptor
C6_SegmentOf(i) ==
    CASE i.moduleFunction = "MONO_FIRMWARE" /\ deviceSpecs(dfuId).systemFirmwareOne.present ->
           "systemFirmwareOne"
      [] i.moduleFunction = "SYSTEM_PART" /\ i.moduleIndex = 1 -> "systemFirmwareOne"
      [] i.moduleFunction = "SYSTEM_PART" /\ i.moduleIndex = 2 -> "systemFirmwareTwo"
      [] i.moduleFunction = "SYSTEM_PART" /\ i.moduleIndex = 3 -> "systemFirmwareThree"
      [] i.moduleFunction = "SYSTEM_PART" -> Undefined
      [] i.moduleFunction = "RADIO_STACK" -> "radioStack"
      [] OTHER -> IF factory THEN "factoryReset" ELSE "userFirmware"

\* C6: force suppresses exactly the CRC, platform and module-function
\* failures: with force set none of the three aborts the attempt, an unknown
\* module function keeps the default segment, and the segment and the address
\* written do not depend on the CRC or on the platform ID; a missing
\* toolchain, a missing file, a directory, an unknown destination abort the
\* attempt with force set as they do without it.
C6_ForceSuppressesExactlyThree ==
    /\ force => err \notin {ErrCrc, ErrPlatform, ErrModuleFunction}
    /\ (force /\ Parsed /\ SuffixKnown /\ pc \in {"dropModuleInfo", "resolve", "writeDfu", "done"})
         => destSegment = C6_SegmentOf(info[1])
    /\ (force /\ Parsed /\ SuffixKnown /\ Written)
         => \/ /\ info[1].moduleFunction \in {"SYSTEM_PART", "RADIO_STACK"}
               /\ writes[1].address = <<"0", "x", "0">> \o
                    (IF info[1].moduleStartAddy = NoStartAddy
                     THEN UndefinedChars ELSE info[1].moduleStartAddy)
            \/ /\ info[1].moduleFunction \notin {"SYSTEM_PART", "RADIO_STACK"}
               /\ writes[1].address = deviceSpecs(dfuId)[C6_SegmentOf(info[1])].address
    /\ (force /\ Parsed /\ ~SuffixKnown /\ Written)
         => /\ destSegment = (IF factory THEN "factoryReset" ELSE "userFirmware")
            /\ writes[1].address = deviceSpecs(dfuId)[destSegment].address
    /\ dfuUtil = "missing" => Aborted /\ err = ErrNoDfuUtil /\ ~Written
    /\ stats = "directory" => Aborted /\ err = ErrDirectory /\ ~Written
    /\ (stats = "ENOENT" /\ binaryArg \notin KnownApps)
         => Aborted /\ err = ErrNoFile /\ ~Written
    /\ err \in {ErrNoDevice, ErrParse, ErrTempStream, ErrSegment, ErrUnknownDestination}
         => Aborted /\ ~Written
    /\ err = ErrWrite => Aborted
    /\ Written => writes[1].address # NoAddress

C6_Witness ==
    /\ force /\ Parsed /\ SuffixKnown /\ Written
    /\ ~info[1].crcOk /\ ~PlatformMatches
    /\ info[1].moduleFunction = "OTHER"
    /\ pc = "done"

\* C7: a USER_PART image with a valid CRC and a matching platform ID is
\* written to factoryReset when factory is set and to userFirmware otherwise,
\* at the segment table's address of that segment, with the leave flag that
\* the caller requested or, with none requested, true exactly for
\* userFirmware.
C7_UserPartPlan ==
    (/\ Written /\ Parsed
     /\ info[1].moduleFunction = "USER_PART"
     /\ info[1].crcOk /\ PlatformMatches)
        => /\ destSegment = (IF factory THEN "factoryReset" ELSE "userFirmware")
           /\ deviceSpecs(dfuId)[destSegment].present
           /\ writes[1].address = deviceSpecs(dfuId)[destSegment].address
           /\ writes[1].leave = (IF requestLeave # <<>> THEN requestLeave[1] ELSE ~factory)

C7_Witness ==
    /\ Written /\ Parsed /\ SuffixKnown
    /\ info[1].moduleFunction = "USER_PART"
    /\ info[1].crcOk /\ PlatformMatches
    /\ factory
    /\ requestLeave = <<TRUE>>
    /\ writes[1].leave = TRUE
    /\ destSegment = "factoryReset"

\* C8: a file at the path is parsed even when the path names a known app;
\* a known app is used only when the path does not exist, and then nothing
\* of the descriptor is used: no parse, no specs, no stripping, the default
\* segment and its table address. A missing path that names no known app,
\* and a directory, fail without a write.
C8_ImageOrigin ==
    /\ flashingKnownApp => stats = "ENOENT" /\ binaryArg \in KnownApps
    /\ stats = "file" => ~flashingKnownApp /\ binary = binaryArg
    /\ flashingKnownApp =>
         /\ ~Parsed
         /\ specs = Undefined
         /\ tempFiles = {}
         /\ pc \notin {"parsing", "dropModuleInfo"}
         /\ err \notin {ErrParse, ErrCrc, ErrPlatform, ErrModuleFunction}
         /\ Written =>
              /\ destSegment = (IF factory THEN "factoryReset" ELSE "userFirmware")
              /\ writes[1].address = deviceSpecs(dfuId)[destSegment].address
              /\ writes[1].image = checkKnownApp(binaryArg)
    /\ (stats = "directory" \/ (stats = "ENOENT" /\ binaryArg \notin KnownApps))
         => ~Written /\ ~Parsed /\ Aborted

C8_Witness ==
    /\ flashingKnownApp
    /\ factory
    /\ pc = "done"
    /\ writes[1].image = "binaries/tinker"

\* the place of each callback in the chain
StageOf(p) ==
    CASE p = "isDfuUtilInstalled" -> 1
      [] p = "findCompatibleDFU" -> 2
      [] p = "statBinary" -> 3
      [] p = "parseFile" -> 4
      [] p = "parsing" -> 5
      [] p = "dropModuleInfo" -> 6
      [] p = "resolve" -> 7
      [] p = "writeDfu" -> 8
      [] p = "catch" -> 9
      [] OTHER -> 10

\* C9: the stages run in the order toolchain check, device discovery, image
\* origin and parse, resolution, write, each after the one before succeeded:
\* with the toolchain missing no device is looked for and nothing is
\* written, a failed stage is followed by the catch handler alone,
\* dfu.writeDfu is called at most once, and a failure ends the invocation
\* with the wrapped error, without a retry.
C9_StagesInOrder ==
    /\ [](/\ Len(writes) <= 1
          /\ dfuUtil = "missing" => targetDevice = "none" /\ stats = "none" /\ ~Written
          /\ targetDevice # "none" => dfuUtil = "installed"
          /\ stats # "none" => targetDevice # "none"
          /\ (Parsed \/ flashingKnownApp \/ StageOf(pc) \in 4..8) => stats \in {"file", "ENOENT"}
          /\ Written => StageOf(pc) >= 8 /\ destSegment \in SegmentNames \cup {Undefined}
          /\ pc = "failed" => outcome = WrappedError /\ err # ""
          /\ pc = "done" => outcome = "resolved" /\ err = "" /\ Written
          /\ pc \notin {"done", "failed"} => outcome = "pending")
    /\ [][/\ StageOf(pc') > StageOf(pc)
          /\ pc \notin {"done", "failed"}
          /\ pc = "catch" => pc' = "failed"
          /\ err # "" => pc = "catch" /\ err' = err /\ writes' = writes
          /\ writes' # writes => pc = "resolve" /\ pc' = "writeDfu"
          /\ pc' = "done" => pc = "writeDfu"]_vars

C9_Witness ==
    /\ dfuUtil = "missing"
    /\ pc = "failed"
    /\ outcome = WrappedError

\* C10: a temporary image made by the header stripping exists when
\* dfu.writeDfu is called, and once the attempt has ended, in success or in
\* failure, no temporary image of the attempt remains.
C10_TemporaryImageReleased ==
    /\ (Written /\ writes[1].image = TempPath /\ pc = "writeDfu") => TempPath \in tempFiles
    /\ Ended => tempFiles = {}

====
